---- MODULE Spec2Model ----
(***************************************************************************)
(* express-list-endpoints (src/src/index.js): the routing-tree walker, the *)
(* pattern decoder, the route extractor and the endpoint merger.           *)
(*                                                                         *)
(* Strings are sequences of one-character strings, so that the regular     *)
(* expressions of the source act on them position by position.  Positions  *)
(* are 1-based here; lastIndex keeps JavaScript's 0-based value.           *)
(***************************************************************************)
EXTENDS Integers, Sequences, FiniteSets, TLC

VARIABLES
  lastIndex,   \* regexpExpressParamRegexp.lastIndex: the module's only state
  heap,        \* the Endpoint objects allocated so far (a reference is an index)
  endpoints,   \* the accumulator: a sequence of references into heap
  batch,       \* references of the endpoint list last handed to addEndpoints
  history,     \* candidates handed to addEndpoints so far, as they arrived
  routeLog,    \* per endpoint parseExpressRoute built: its path, the route's method table
  before,      \* the accumulator's value before the last operation
  op,          \* the last operation, with its inputs and its outcome
  steps        \* operations performed on the accumulator

vars == <<lastIndex, heap, endpoints, batch, history, routeLog, before, op, steps>>

----------------------------------------------------------------------------
(* Characters and string helpers *)

LowerChars == {"a","b","c","d","e","f","g","h","i","j","k","l","m",
               "n","o","p","q","r","s","t","u","v","w","x","y","z"}
UpperChars == {"A","B","C","D","E","F","G","H","I","J","K","L","M",
               "N","O","P","Q","R","S","T","U","V","W","X","Y","Z"}
DigitChars == {"0","1","2","3","4","5","6","7","8","9"}

\* \w
WordChars == LowerChars \cup UpperChars \cup DigitChars \cup {"_"}
\* [\w\\.-]
PathWordChars == WordChars \cup {"\\", ".", "-"}

MinOf(S) == CHOOSE x \in S : \A y \in S : x <= y
MaxOf(S) == CHOOSE x \in S : \A y \in S : x >= y

\* s.startsWith(lit, i-1)
StartsWithAt(s, i, lit) ==
  /\ i >= 1
  /\ i + Len(lit) - 1 <= Len(s)
  /\ \A k \in 1..Len(lit) : s[i + k - 1] = lit[k]

Slice(s, from, to) == [k \in 1..(to - from + 1) |-> s[from + k - 1]]

\* the two characters \/ (an escaped separator in a serialized pattern)
EscSlash == <<"\\", "/">>

\* the first position >= k holding c, or Len(s)+1 (k <= Len(s)+1)
FirstAt(s, k, c) ==
  MinOf({p \in k..(Len(s) + 1) : p = Len(s) + 1 \/ s[p] = c})

\* the position after the longest run of characters of class C starting
\* at k (k <= Len(s)+1)
RunEnd(s, k, C) ==
  MinOf({p \in k..(Len(s) + 1) : p = Len(s) + 1 \/ s[p] \notin C})

----------------------------------------------------------------------------
(* The regular expressions of lines 23-26 *)

\* \(\?:\\{0,maxBs}\/?\([^)]+\)\) matched at position i: the position after
\* the match, or 0.  maxBs = 1 is regExpToReplaceExpressPathRegExpParams
\* (and the second alternative of regExpToParseExpressPathRegExp), maxBs = 2
\* is regexpExpressParamRegexp.  The optional characters differ from the
\* character required after them, so the greedy choice is the only one.
ParamGroupEnd(s, i, maxBs) ==
  LET \* [^)]+\)\) after the "(" at open: close is the first ")" after it
      Closed(open, close) ==
        IF close > open + 1 /\ StartsWithAt(s, close, <<")", ")">>)
        THEN close + 2 ELSE 0
      \* \( at b2
      Opened(b2) ==
        IF b2 <= Len(s) /\ s[b2] = "("
        THEN Closed(b2, FirstAt(s, b2 + 1, ")")) ELSE 0
      \* \/? at b1
      Slashed(b1) ==
        Opened(IF b1 <= Len(s) /\ s[b1] = "/" THEN b1 + 1 ELSE b1)
      \* \\{0,maxBs} at b0, where the run of backslashes ends at bsEnd
      Backslashed(b0, bsEnd) ==
        Slashed(IF bsEnd - b0 > maxBs THEN b0 + maxBs ELSE bsEnd)
  IN IF StartsWithAt(s, i, <<"(", "?", ":">>)
     THEN Backslashed(i + 3, RunEnd(s, i + 3, {"\\"}))
     ELSE 0

\* regexpExpressParamRegexp.test(s) with the g flag: the search starts at
\* lastIndex, a match leaves lastIndex after it, a failure resets it to 0.
RegexpExpressParamRegexpTest(s, li) ==
  LET \* ends: the position after the match at each position that has one
      Found(ends) ==
        IF DOMAIN ends = {} THEN [found |-> FALSE, lastIndex |-> 0]
        ELSE [found |-> TRUE, lastIndex |-> ends[MinOf(DOMAIN ends)] - 1]
      EndAt(i) == ParamGroupEnd(s, i, 2)
      Matches(all) == [i \in {j \in DOMAIN all : all[j] # 0} |-> all[i]]
  IN IF li > Len(s) THEN [found |-> FALSE, lastIndex |-> 0]
     ELSE Found(Matches([i \in (li + 1)..Len(s) |-> EndAt(i)]))

\* hasParams (lines 70-72)
hasParams(expressPathRegExp, li) ==
  RegexpExpressParamRegexpTest(expressPathRegExp, li)

\* regExpToParseExpressPathRegExp, first alternative (capture group 1):
\*   :?[\w\\.-]*(?:\\\/:?[\w\\.-]*)*   followed by   \\\/.*
\* searched in the order a backtracking matcher tries: the optional colon
\* taken first, the longest run first, one more repetition first.  Each
\* operator gives the position after group 1 of the first attempt that is
\* followed by \/, or 0.
RECURSIVE G1Segment(_, _)
RECURSIVE G1Runs(_, _, _)

\* after :?[\w\\.-]* ended at e: one more repetition, else the final \\\/
\* r if the attempt succeeded (r # 0), else the alternative
OrElse(r, alternative) == IF r # 0 THEN r ELSE alternative

G1Star(s, e) ==
  IF StartsWithAt(s, e, EscSlash)
  THEN OrElse(G1Segment(s, e + 2), e)
  ELSE 0

\* the run [\w\\.-]* from lo, tried from its longest end e down to lo
G1Runs(s, e, lo) ==
  IF e < lo THEN 0
  ELSE OrElse(G1Star(s, e), G1Runs(s, e - 1, lo))

\* :?[\w\\.-]* at q and what follows: first with the colon taken, then
\* without it (the run is then empty, a colon not being in the class)
G1Segment(s, q) ==
  LET From(from) == G1Runs(s, RunEnd(s, from, PathWordChars), from)
      Both(first) == IF first = q THEN From(q) ELSE OrElse(From(first), G1Star(s, q))
  IN Both(IF q <= Len(s) /\ s[q] = ":" THEN q + 1 ELSE q)

\* both alternatives tried at position p, after the prefix ^\/\^\\?\/?
ExecAt(s, p) ==
  LET Second(e2) ==
        IF e2 # 0 /\ StartsWithAt(s, e2, EscSlash)
        THEN [match |-> TRUE, defined |-> FALSE, group |-> <<>>]
        ELSE [match |-> FALSE, defined |-> FALSE, group |-> <<>>]
      First(e1) ==
        IF e1 # 0
        THEN [match |-> TRUE, defined |-> TRUE, group |-> Slice(s, p, e1 - 1)]
        ELSE Second(ParamGroupEnd(s, p, 1))
  IN First(G1Segment(s, p))

\* the positions the prefix ^\/\^\\?\/? can end before, in the order tried
PrefixEnds(s) ==
  IF StartsWithAt(s, 3, <<"\\">>)
  THEN (IF StartsWithAt(s, 4, <<"/">>) THEN <<5, 4>> ELSE <<4>>) \o <<3>>
  ELSE IF StartsWithAt(s, 3, <<"/">>) THEN <<4, 3>> ELSE <<3>>

RECURSIVE ExecFrom(_, _, _)
ExecFrom(s, ends, k) ==
  LET Try(r) == IF r.match THEN r ELSE ExecFrom(s, ends, k + 1)
  IN IF k > Len(ends)
     THEN [match |-> FALSE, defined |-> FALSE, group |-> <<>>]
     ELSE Try(ExecAt(s, ends[k]))

\* regExpToParseExpressPathRegExp.exec(s) (line 23): whether it matches, and
\* capture group 1 (undefined when the second alternative matched)
RegExpToParseExpressPathRegExpExec(s) ==
  IF ~StartsWithAt(s, 1, <<"/", "^">>)
  THEN [match |-> FALSE, defined |-> FALSE, group |-> <<>>]
  ELSE ExecFrom(s, PrefixEnds(s), 1)

----------------------------------------------------------------------------
(* Pattern decoder: parseExpressPath (lines 112-144) *)

\* the callback of lines 122-132 applied to the first match of
\* regExpToReplaceExpressPathRegExpParams (no g flag: leftmost match only);
\* the string is returned as it is when nothing matches
ReplaceFirstParam(s, paramName) ==
  LET paramId == <<":">> \o paramName
      \* str is s from i up to e
      Replace(i, e) ==
        Slice(s, 1, i - 1)
        \o (IF StartsWithAt(s, i, <<"(", "?", ":", "\\", "/">>)
            THEN EscSlash \o paramId
            ELSE paramId)
        \o Slice(s, e, Len(s))
      \* ends: the position after the match at each position that has one
      First(ends) ==
        IF DOMAIN ends = {} THEN s
        ELSE Replace(MinOf(DOMAIN ends), ends[MinOf(DOMAIN ends)])
      EndAt(i) == ParamGroupEnd(s, i, 1)
      Matches(all) == [i \in {j \in DOMAIN all : all[j] # 0} |-> all[i]]
  IN First(Matches([i \in 1..Len(s) |-> EndAt(i)]))

\* the while loop of lines 117-135.  params[paramIndex].name throws a
\* TypeError when the descriptors have run out; lastIndex then keeps the
\* value the last successful test left.
RECURSIVE DecodeLoop(_, _, _, _)
DecodeLoop(parsedRegExp, params, paramIndex, li) ==
  LET Body(t) ==
        IF ~t.found
        THEN [err |-> FALSE, parsed |-> parsedRegExp,
              lastIndex |-> t.lastIndex]
        ELSE IF paramIndex > Len(params)
        THEN [err |-> TRUE, parsed |-> parsedRegExp,
              lastIndex |-> t.lastIndex]
        ELSE DecodeLoop(ReplaceFirstParam(parsedRegExp, params[paramIndex]),
                        params, paramIndex + 1, t.lastIndex)
  IN Body(hasParams(parsedRegExp, li))

\* .replace(/\\\//g, '/') (line 141)
RECURSIVE UnescapeSlashes(_)
UnescapeSlashes(s) ==
  IF s = <<>> THEN <<>>
  ELSE IF StartsWithAt(s, 1, EscSlash)
  THEN <<"/">> \o UnescapeSlashes(Slice(s, 3, Len(s)))
  ELSE <<s[1]>> \o UnescapeSlashes(Tail(s))

\* parseExpressPath(expressPathRegExp, params) called with lastIndex = li:
\* err is a thrown TypeError (descriptors exhausted, exec() gave null, or
\* capture group 1 is undefined at line 141)
parseExpressPath(expressPathRegExp, params, li) ==
  LET Line141(expressPathRegExpExec, li2) ==
        IF ~expressPathRegExpExec.match \/ ~expressPathRegExpExec.defined
        THEN [err |-> TRUE, path |-> <<>>, lastIndex |-> li2]
        ELSE [err |-> FALSE,
              path |-> UnescapeSlashes(expressPathRegExpExec.group),
              lastIndex |-> li2]
      AfterLoop(loop) ==
        IF loop.err
        THEN [err |-> TRUE, path |-> <<>>, lastIndex |-> loop.lastIndex]
        ELSE Line141(RegExpToParseExpressPathRegExpExec(loop.parsed),
                     loop.lastIndex)
  IN AfterLoop(DecodeLoop(expressPathRegExp, params, 1, li))

----------------------------------------------------------------------------
(* Synthetic compiled patterns: what the host framework's compiler emits    *)
(* for a template, in the two encodings lines 123-126 describe.  A template *)
(* is a sequence of segments [param |-> BOOLEAN, text |-> chars].           *)

\* encoding A: (?:([^\/]+?)) with the separator outside the group
CaptureGroupA == <<"(","?",":","(","[","^","\\","/","]","+","?",")",")">>
\* encoding B: (?:\/([^\/]+?)) with the separator inside the group
CaptureGroupB ==
  <<"(","?",":","\\","/","(","[","^","\\","/","]","+","?",")",")">>
\* \/?(?=\/|$)/i closes every pattern compiled for a mount
PatternTail == <<"\\","/","?","(","?","=","\\","/","|","$",")","/","i">>

RECURSIVE CompileSegments(_, _)
CompileSegments(T, encodingB) ==
  IF T = <<>> THEN <<>>
  ELSE (IF ~T[1].param THEN EscSlash \o T[1].text
        ELSE IF encodingB THEN CaptureGroupB
        ELSE EscSlash \o CaptureGroupA)
       \o CompileSegments(Tail(T), encodingB)

\* compile(T)
Compile(T, encodingB) ==
  <<"/", "^">> \o CompileSegments(T, encodingB) \o PatternTail

\* paramsOf(T): the names of T's parameters in order
RECURSIVE ParamsOf(_)
ParamsOf(T) ==
  IF T = <<>> THEN <<>>
  ELSE (IF T[1].param THEN <<T[1].text>> ELSE <<>>) \o ParamsOf(Tail(T))

\* T as text: /literal and /:name segments
RECURSIVE TemplateText(_)
TemplateText(T) ==
  IF T = <<>> THEN <<>>
  ELSE <<"/">> \o (IF T[1].param THEN <<":">> ELSE <<>>) \o T[1].text
       \o TemplateText(Tail(T))

\* EXPRESS_ROOT_PATH_REGEXP_VALUE (line 28): /^\/?(?=\/|$)/i
EXPRESS_ROOT_PATH_REGEXP_VALUE == <<"/", "^">> \o PatternTail

----------------------------------------------------------------------------
(* Route extractor: getRouteMethods, getRouteMiddlewares, parseExpressRoute *)

LowerSeq == <<"a","b","c","d","e","f","g","h","i","j","k","l","m",
              "n","o","p","q","r","s","t","u","v","w","x","y","z">>
UpperSeq == <<"A","B","C","D","E","F","G","H","I","J","K","L","M",
              "N","O","P","Q","R","S","T","U","V","W","X","Y","Z">>

\* String.prototype.toUpperCase on the characters used here
ToUpperCase(s) ==
  [k \in 1..Len(s) |->
     IF s[k] \in LowerChars
     THEN UpperSeq[CHOOSE i \in 1..26 : LowerSeq[i] = s[k]]
     ELSE s[k]]

\* the wildcard key of a route's method table
WildcardKey == <<"_","a","l","l">>

\* getRouteMethods without the filter of line 47
GetRouteMethodsKeepWildcard(route) ==
  [k \in 1..Len(route.methods) |-> ToUpperCase(route.methods[k])]

\* getRouteMethods (lines 44-51); route.methods is the key list of the
\* method table, in Object.keys order
getRouteMethods(route) ==
  LET NotAll(method) == method # WildcardKey
      kept == SelectSeq(route.methods, NotAll)
  IN [k \in 1..Len(kept) |-> ToUpperCase(kept[k])]

\* getRouteMiddlewares (lines 59-63); route.stack is the list of the
\* handlers' names, "" for a handler without a name
getRouteMiddlewares(route) ==
  [k \in 1..Len(route.stack) |->
     IF route.stack[k] # "" THEN route.stack[k] ELSE "anonymous"]

\* completePath.replace(regexpExpressPathParamRegexp, '$1') (lines 26, 96):
\* every match of (:[^)]+)\([^)]+\) from left to right is replaced by its
\* first group.  At a colon at i the first group is tried from its longest
\* end: it stops before the last "(" that still leaves one character
\* before the first ")" after i.
RECURSIVE StripParamRegexps(_, _)
StripParamRegexps(s, i) ==
  IF i > Len(s) THEN <<>>
  ELSE
    LET close == FirstAt(s, i + 1, ")")
        opens == {j \in (i + 2)..(close - 2) : s[j] = "("}
    IN IF s[i] = ":" /\ close <= Len(s) /\ opens # {}
       THEN Slice(s, i, MaxOf(opens) - 1) \o StripParamRegexps(s, close + 1)
       ELSE <<s[i]>> \o StripParamRegexps(s, i + 1)

\* `${undefined}`
UndefinedText == <<"u","n","d","e","f","i","n","e","d">>

\* the paths array of lines 80-86: route.path is a string, an array of
\* strings, or absent (undefined is pushed, and stringified at line 92)
RoutePaths(route) ==
  IF route.path.kind = "undefined" THEN <<UndefinedText>>
  ELSE route.path.values

\* parseExpressRoute (lines 79-105): the Endpoint values, one per path
parseExpressRoute(route, basePath) ==
  LET paths == RoutePaths(route)
      completePath(k) ==
        IF basePath # <<>> /\ paths[k] = <<"/">>
        THEN basePath
        ELSE basePath \o paths[k]
  IN [k \in 1..Len(paths) |->
        [path |-> StripParamRegexps(completePath(k), 1),
         methods |-> getRouteMethods(route),
         middlewares |-> getRouteMiddlewares(route)]]

----------------------------------------------------------------------------
(* Endpoint merger: addEndpoints (lines 183-201).  Endpoint objects live   *)
(* in a heap, because addEndpoints pushes the objects it is given and      *)
(* later assigns to their methods field.                                   *)

\* the objects a list of references denotes
Deref(h, refs) == [k \in 1..Len(refs) |-> h[refs[k]]]

\* new objects holding the given values
Alloc(h, values) ==
  [heap |-> h \o values,
   refs |-> [k \in 1..Len(values) |-> Len(h) + k]]

Range(f) == {f[k] : k \in DOMAIN f}

\* the callback without the find of lines 185-187: always line 196
AddEndpointAlwaysPush(h, currentEndpoints, newEndpoint) ==
  [heap |-> h, list |-> Append(currentEndpoints, newEndpoint)]

\* the callback without the filter of lines 190-192
AddEndpointNoFilter(h, currentEndpoints, newEndpoint) ==
  LET found == {i \in 1..Len(currentEndpoints) :
                  h[currentEndpoints[i]].path = h[newEndpoint].path}
  IN IF found # {}
     THEN LET existingEndpoint == currentEndpoints[MinOf(found)]
          IN [heap |-> [h EXCEPT ![existingEndpoint].methods =
                                   @ \o h[newEndpoint].methods],
              list |-> currentEndpoints]
     ELSE [heap |-> h, list |-> Append(currentEndpoints, newEndpoint)]

\* the callback assigning the middlewares of newEndpoint as well
AddEndpointTakeMiddlewares(h, currentEndpoints, newEndpoint) ==
  LET found == {i \in 1..Len(currentEndpoints) :
                  h[currentEndpoints[i]].path = h[newEndpoint].path}
  IN IF found # {}
     THEN LET existingEndpoint == currentEndpoints[MinOf(found)]
              NotYet(method) == method \notin Range(h[existingEndpoint].methods)
              newMethods == SelectSeq(h[newEndpoint].methods, NotYet)
          IN [heap |-> [h EXCEPT ![existingEndpoint] =
                          [path |-> @.path,
                           methods |-> @.methods \o newMethods,
                           middlewares |-> h[newEndpoint].middlewares]],
              list |-> currentEndpoints]
     ELSE [heap |-> h, list |-> Append(currentEndpoints, newEndpoint)]

\* the callback of lines 184-198 for one newEndpoint
AddEndpoint(h, currentEndpoints, newEndpoint) ==
  LET found == {i \in 1..Len(currentEndpoints) :
                  h[currentEndpoints[i]].path = h[newEndpoint].path}
  IN IF found # {}
     THEN LET existingEndpoint == currentEndpoints[MinOf(found)]
              NotYet(method) == method \notin Range(h[existingEndpoint].methods)
              newMethods == SelectSeq(h[newEndpoint].methods, NotYet)
          IN [heap |-> [h EXCEPT ![existingEndpoint].methods = @ \o newMethods],
              list |-> currentEndpoints]
     ELSE [heap |-> h, list |-> Append(currentEndpoints, newEndpoint)]

\* endpointsToAdd.forEach (line 184), from index k
RECURSIVE AddEndpointsFrom(_, _, _, _)
AddEndpointsFrom(h, currentEndpoints, endpointsToAdd, k) ==
  IF k > Len(endpointsToAdd) THEN [heap |-> h, list |-> currentEndpoints]
  ELSE LET Rest(r) == AddEndpointsFrom(r.heap, r.list, endpointsToAdd, k + 1)
       IN Rest(AddEndpoint(h, currentEndpoints, endpointsToAdd[k]))

\* addEndpoints(currentEndpoints, endpointsToAdd)
addEndpoints(h, currentEndpoints, endpointsToAdd) ==
  AddEndpointsFrom(h, currentEndpoints, endpointsToAdd, 1)

----------------------------------------------------------------------------
(* Stack walker: parseEndpoints, parseStack, expressListEndpoints.         *)
(*                                                                         *)
(* A node is [kind, stack]: kind "stack" exposes app.stack, "_router"      *)
(* exposes app._router.stack, "none" exposes neither (a plain handler).    *)
(* A layer is [route, name, regexp, keys, path, handle]; route.present     *)
(* marks a terminal layer; regexp is the pattern's text, <<>> when the     *)
(* layer has none; keys holds the descriptors' names; path is <<>> when    *)
(* absent.  The walk threads st = [heap, endpoints, lastIndex, err]: err   *)
(* is a thrown TypeError, which ends the walk.                              *)

\* DEFAULT_OPTIONS (lines 19-21)
DEFAULT_OPTIONS == [includeMiddlewareRoutes |-> TRUE]

\* STACK_ITEM_VALID_NAMES (lines 29-33)
STACK_ITEM_VALID_NAMES == {"router", "bound dispatch", "mounted_app"}

\* STACK_ITEM_VALID_NAMES_INCLUDING_MIDDLEWARE_ROUTES (lines 35-38)
STACK_ITEM_VALID_NAMES_INCLUDING_MIDDLEWARE_ROUTES ==
  {"<anonymous>"} \cup STACK_ITEM_VALID_NAMES

\* String(stackItem.regexp), as test() and the template literal see it
RegexpText(regexp) == IF regexp = <<>> THEN UndefinedText ELSE regexp

\* ` RegExp(${stackItem.regexp}) ` (line 228)
RegExpPath(regexp) ==
  <<" ","R","e","g","E","x","p","(">> \o RegexpText(regexp) \o <<")"," ">>

\* lines 219-231: the base path a recognized mount layer recurses with
NewBasePath(stackItem, basePath, li) ==
  LET isExpressPathRegexp ==
        RegExpToParseExpressPathRegExpExec(RegexpText(stackItem.regexp)).match
      Line226(parsedPath) ==
        [err |-> parsedPath.err,
         path |-> basePath \o <<"/">> \o parsedPath.path,
         lastIndex |-> parsedPath.lastIndex]
  IN IF isExpressPathRegexp
     THEN Line226(parseExpressPath(stackItem.regexp, stackItem.keys, li))
     ELSE IF /\ stackItem.path = <<>>
             /\ stackItem.regexp # <<>>
             /\ stackItem.regexp # EXPRESS_ROOT_PATH_REGEXP_VALUE
     THEN [err |-> FALSE,
           path |-> basePath \o <<"/">> \o RegExpPath(stackItem.regexp),
           lastIndex |-> li]
     ELSE [err |-> FALSE, path |-> basePath, lastIndex |-> li]

\* the placeholder of lines 161-165
Placeholder(basePath) ==
  [path |-> basePath, methods |-> <<>>, middlewares |-> <<>>]

\* endpoints = addEndpoints(endpoints, newEndpoints) (lines 161, 217) with
\* newEndpoints fresh objects
AddNew(st, newEndpoints) ==
  LET Assign(m) == [st EXCEPT !.heap = m.heap, !.endpoints = m.list]
      Merge(a) == Assign(addEndpoints(a.heap, st.endpoints, a.refs))
  IN Merge(Alloc(st.heap, newEndpoints))

\* lines 159-166 without the test of line 160
ParseNoStackAlways(basePath, st) ==
  AddNew(st, <<Placeholder(basePath)>>)

\* lines 159-166: parseEndpoints on a node that exposes no stack
ParseNoStack(basePath, st) ==
  IF Len(st.endpoints) # 0
  THEN AddNew(st, <<Placeholder(basePath)>>)
  ELSE st

\* lines 214-217: a terminal layer
ParseRouteItem(stackItem, basePath, st) ==
  AddNew(st, parseExpressRoute(stackItem.route, basePath))

\* line 212 without the test of options.includeMiddlewareRoutes
ValidNamesIgnoringOption(includeMiddlewareRoutes) ==
  STACK_ITEM_VALID_NAMES_INCLUDING_MIDDLEWARE_ROUTES

\* line 212
VALID_NAMES(includeMiddlewareRoutes) ==
  IF includeMiddlewareRoutes
  THEN STACK_ITEM_VALID_NAMES_INCLUDING_MIDDLEWARE_ROUTES
  ELSE STACK_ITEM_VALID_NAMES

RECURSIVE parseEndpoints(_, _, _, _)

\* the forEach callback of lines 213-235 for one stackItem
ParseStackItem(stackItem, basePath, st, includeMiddlewareRoutes) ==
  IF stackItem.route.present
  THEN ParseRouteItem(stackItem, basePath, st)
  ELSE IF stackItem.name \in VALID_NAMES(includeMiddlewareRoutes)
  THEN LET Line233(newBasePath) ==
             IF newBasePath.err
             THEN [st EXCEPT !.err = TRUE,
                             !.lastIndex = newBasePath.lastIndex]
             ELSE parseEndpoints(stackItem.handle, newBasePath.path,
                                 [st EXCEPT !.lastIndex = newBasePath.lastIndex],
                                 includeMiddlewareRoutes)
       IN Line233(NewBasePath(stackItem, basePath, st.lastIndex))
  ELSE st

\* stack.forEach (line 213), from index k; a throw ends the loop
RECURSIVE ParseStackFrom(_, _, _, _, _)
ParseStackFrom(stack, basePath, st, includeMiddlewareRoutes, k) ==
  IF k > Len(stack) \/ st.err THEN st
  ELSE ParseStackFrom(stack, basePath,
         ParseStackItem(stack[k], basePath, st, includeMiddlewareRoutes),
         includeMiddlewareRoutes, k + 1)

\* parseStack (lines 210-238)
parseStack(stack, basePath, st, includeMiddlewareRoutes) ==
  ParseStackFrom(stack, basePath, st, includeMiddlewareRoutes, 1)

\* parseEndpoints (lines 153-172)
parseEndpoints(app, basePath, st, includeMiddlewareRoutes) ==
  IF app.kind = "none"
  THEN ParseNoStack(basePath, st)
  ELSE parseStack(app.stack, basePath, st, includeMiddlewareRoutes)

\* mergedOptions (line 248): options is [has, value], has = FALSE when the
\* caller gave no includeMiddlewareRoutes
MergedOptions(options) ==
  IF options.has THEN options.value
  ELSE DEFAULT_OPTIONS.includeMiddlewareRoutes

\* expressListEndpoints (lines 246-252) called while lastIndex = li
expressListEndpoints(app, options, li) ==
  parseEndpoints(app, <<>>,
                 [heap |-> <<>>, endpoints |-> <<>>,
                  lastIndex |-> li, err |-> FALSE],
                 MergedOptions(options))

----------------------------------------------------------------------------
(* Inputs: routes, layers, nodes and trees the operations are applied to *)

MaxSegments == 2   \* segments of a path template
MaxBatch == 2      \* endpoints in one list handed to addEndpoints
MaxMerges == 2     \* addEndpoints calls on one accumulator
MaxSteps == 2      \* layers one accumulator is walked through
MaxStack == 2      \* layers in the stack of an application

SeqsUpTo(S, n) == UNION {[1..k -> S] : k \in 0..n}

KeyGet == <<"g","e","t">>
KeyPost == <<"p","o","s","t">>
PathRoot == <<"/">>
PathX == <<"/","x">>
PathA == <<"/","a">>
\* /:id(\d+): a parameter with a custom matcher
PathIdDigits == <<"/",":","i","d","(","\\","d","+",")">>

StringPath(p) == [kind |-> "string", values |-> <<p>>]
ArrayPath(ps) == [kind |-> "array", values |-> ps]
NoPath == [kind |-> "undefined", values |-> <<>>]

MakeRoute(methods, path, stack) ==
  [present |-> TRUE, methods |-> methods, path |-> path, stack |-> stack]
NoRoute ==
  [present |-> FALSE, methods |-> <<>>, path |-> NoPath, stack |-> <<>>]

RouteGetX == MakeRoute(<<KeyGet>>, StringPath(PathX), <<"auth">>)
RouteAllX == MakeRoute(<<KeyGet, KeyPost, WildcardKey>>, StringPath(PathX), <<"">>)
RoutePostGet == MakeRoute(<<KeyPost, KeyGet>>, ArrayPath(<<PathRoot, PathX>>),
                          <<"auth", "">>)
RouteIdDigits == MakeRoute(<<WildcardKey>>, StringPath(PathIdDigits), <<>>)
RouteGetRoot == MakeRoute(<<KeyGet>>, StringPath(PathRoot), <<"auth">>)
RouteNoPath == MakeRoute(<<KeyGet>>, NoPath, <<"auth">>)
RoutePostXX == MakeRoute(<<KeyPost>>, ArrayPath(<<PathX, PathX>>), <<>>)

\* routes the typedef of lines 2-5 admits
Routes == {RouteGetX, RouteAllX, RoutePostGet, RouteIdDigits, RouteGetRoot}

BasePaths == {<<>>, PathA}

Handler == [kind |-> "none", stack |-> <<>>]
Router(stack) == [kind |-> "stack", stack |-> stack]
Application(stack) == [kind |-> "_router", stack |-> stack]

RouteLayer(route) ==
  [route |-> route, name |-> "bound dispatch",
   regexp |-> EXPRESS_ROOT_PATH_REGEXP_VALUE, keys |-> <<>>, path |-> <<>>,
   handle |-> Handler]

MountLayer(name, regexp, keys, handle) ==
  [route |-> NoRoute, name |-> name, regexp |-> regexp, keys |-> keys,
   path |-> <<>>, handle |-> handle]

Lit(text) == [param |-> FALSE, text |-> text]
Par(name) == [param |-> TRUE, text |-> name]

NameA == <<"a">>
NameB == <<"b">>
NameId == <<"i","d">>
NameFirstParam == <<"f","i","r","s","t","P","a","r","a","m">>
TextUsers == <<"u","s","e","r","s">>

RouterX == Router(<<RouteLayer(RouteGetX)>>)
RouterRoot == Router(<<RouteLayer(RouteGetRoot)>>)

\* mount layers met by the layer-by-layer walk
MountLayers ==
  { MountLayer("<anonymous>", EXPRESS_ROOT_PATH_REGEXP_VALUE, <<>>, Handler),
    MountLayer("<anonymous>", Compile(<<Lit(<<"x">>)>>, FALSE), <<>>, Handler),
    MountLayer("<anonymous>", Compile(<<Par(NameId)>>, FALSE), <<NameId>>, Handler),
    MountLayer("<anonymous>", EXPRESS_ROOT_PATH_REGEXP_VALUE, <<>>, RouterX),
    MountLayer("router", EXPRESS_ROOT_PATH_REGEXP_VALUE, <<>>, RouterX),
    MountLayer("router", Compile(<<Lit(<<"a">>)>>, FALSE), <<>>, RouterRoot),
    MountLayer("router", Compile(<<Par(NameId)>>, TRUE), <<>>, RouterX),
    MountLayer("query", EXPRESS_ROOT_PATH_REGEXP_VALUE, <<>>, Handler) }

\* layers of the applications listEndpoints is called with
AppLayers ==
  { RouteLayer(RouteGetX),
    RouteLayer(RoutePostXX),
    RouteLayer(RouteNoPath),
    MountLayer("router", Compile(<<Par(NameId)>>, FALSE), <<NameId>>, RouterRoot),
    MountLayer("router", Compile(<<Par(NameId)>>, FALSE), <<>>, RouterX),
    MountLayer("router", Compile(<<Par(NameA), Par(NameB)>>, FALSE), <<NameA>>, RouterX),
    MountLayer("mounted_app", Compile(<<Par(NameId)>>, TRUE), <<>>,
               Application(<<RouteLayer(RouteGetX)>>)),
    MountLayer("router", EXPRESS_ROOT_PATH_REGEXP_VALUE, <<>>, RouterX),
    MountLayer("<anonymous>", Compile(<<Lit(<<"a">>)>>, FALSE), <<>>, Handler) }

Apps == {Application(stack) : stack \in SeqsUpTo(AppLayers, MaxStack)}

Options == { [has |-> FALSE, value |-> FALSE],
             [has |-> TRUE, value |-> TRUE],
             [has |-> TRUE, value |-> FALSE] }

\* endpoint values handed to addEndpoints directly
Candidates ==
  { [path |-> PathX, methods |-> <<"GET">>, middlewares |-> <<"auth">>],
    [path |-> PathX, methods |-> <<"POST", "GET">>, middlewares |-> <<"anonymous">>],
    [path |-> PathA, methods |-> <<>>, middlewares |-> <<>>] }

Batches == SeqsUpTo(Candidates, MaxBatch)

TemplateSegments ==
  { Lit(<<"a">>), Lit(TextUsers), Par(NameA), Par(NameFirstParam) }

Templates == SeqsUpTo(TemplateSegments, MaxSegments) \ {<<>>}

----------------------------------------------------------------------------
(* State machine *)

\* the accumulator as the caller sees it
View == Deref(heap, endpoints)

Init == /\ lastIndex = 0
        /\ heap = <<>>
        /\ endpoints = <<>>
        /\ batch = <<>>
        /\ history = <<>>
        /\ routeLog = <<>>
        /\ before = <<>>
        /\ op = [name |-> "none", threw |-> FALSE]
        /\ steps = 0

\* addEndpoints(endpoints, E) on fresh objects holding the values of E
AddEndpointsCall(E) ==
  /\ steps < MaxMerges
  /\ \E a \in {Alloc(heap, E)} :
       /\ batch' = a.refs
       /\ \E m \in {addEndpoints(a.heap, endpoints, a.refs)} :
            /\ heap' = m.heap
            /\ endpoints' = m.list
  /\ history' = history \o E
  /\ before' = View
  /\ op' = [name |-> "addEndpoints", threw |-> FALSE]
  /\ steps' = steps + 1
  /\ UNCHANGED <<lastIndex, routeLog>>

\* addEndpoints(endpoints, E) once more with the list it was just given:
\* the same objects, as the first call left them
AddEndpointsAgain ==
  /\ op.name = "addEndpoints"
  /\ \E m \in {addEndpoints(heap, endpoints, batch)} :
       /\ heap' = m.heap
       /\ endpoints' = m.list
  /\ history' = history \o Deref(heap, batch)
  /\ before' = View
  /\ op' = [name |-> "addEndpointsAgain", threw |-> FALSE]
  /\ steps' = steps + 1
  /\ UNCHANGED <<lastIndex, batch, routeLog>>

\* parseStack on one terminal layer (lines 214-217)
RouteLayerStep(route, basePath) ==
  /\ steps < MaxSteps
  /\ ~op.threw
  /\ \E st \in {parseStack(<<RouteLayer(route)>>, basePath,
                           [heap |-> heap, endpoints |-> endpoints,
                            lastIndex |-> lastIndex, err |-> FALSE], TRUE)} :
       /\ heap' = st.heap
       /\ endpoints' = st.endpoints
       /\ lastIndex' = st.lastIndex
       /\ op' = [name |-> "route", route |-> route, basePath |-> basePath,
                 threw |-> st.err]
  /\ \E newEndpoints \in {parseExpressRoute(route, basePath)} :
       /\ history' = history \o newEndpoints
       /\ routeLog' = routeLog \o
            [k \in 1..Len(newEndpoints) |->
               [path |-> newEndpoints[k].path, methods |-> route.methods]]
  /\ before' = View
  /\ steps' = steps + 1
  /\ UNCHANGED batch

\* parseStack on one non-terminal layer (lines 218-234)
MountLayerStep(stackItem, basePath, includeMiddlewareRoutes) ==
  /\ steps < MaxSteps
  /\ ~op.threw
  /\ \E st \in {parseStack(<<stackItem>>, basePath,
                           [heap |-> heap, endpoints |-> endpoints,
                            lastIndex |-> lastIndex, err |-> FALSE],
                           includeMiddlewareRoutes)} :
       /\ heap' = st.heap
       /\ endpoints' = st.endpoints
       /\ lastIndex' = st.lastIndex
       /\ op' = [name |-> "mount", stackItem |-> stackItem,
                 basePath |-> basePath,
                 includeMiddlewareRoutes |-> includeMiddlewareRoutes,
                 newBasePath |->
                   NewBasePath(stackItem, basePath, lastIndex).path,
                 threw |-> st.err]
  /\ before' = View
  /\ steps' = steps + 1
  /\ UNCHANGED <<batch, history, routeLog>>

\* parseEndpoints on a node that exposes no stack (lines 159-166)
ParseEndpointsNoStack(basePath) ==
  /\ steps < MaxSteps
  /\ ~op.threw
  /\ \E st \in {parseEndpoints(Handler, basePath,
                               [heap |-> heap, endpoints |-> endpoints,
                                lastIndex |-> lastIndex, err |-> FALSE],
                               TRUE)} :
       /\ heap' = st.heap
       /\ endpoints' = st.endpoints
  /\ history' = IF endpoints # <<>>
                THEN Append(history, Placeholder(basePath)) ELSE history
  /\ before' = View
  /\ op' = [name |-> "noStack", basePath |-> basePath, threw |-> FALSE]
  /\ steps' = steps + 1
  /\ UNCHANGED <<lastIndex, batch, routeLog>>

\* listEndpoints(app, options): the whole call; a throw returns no list
ListEndpointsCall(app, options) ==
  /\ op.name \in {"none", "idle"}
  /\ \E st \in {expressListEndpoints(app, options, lastIndex)} :
       /\ lastIndex' = st.lastIndex
       /\ heap' = IF st.err THEN <<>> ELSE st.heap
       /\ endpoints' = IF st.err THEN <<>> ELSE st.endpoints
       /\ op' = [name |-> "listEndpoints", app |-> app, options |-> options,
                 startIndex |-> lastIndex, threw |-> st.err]
  /\ UNCHANGED <<batch, history, routeLog, before, steps>>

\* the caller is done with the list (or has caught the error)
CallerDone ==
  /\ op.name = "listEndpoints"
  /\ heap' = <<>>
  /\ endpoints' = <<>>
  /\ op' = [name |-> "idle", threw |-> FALSE]
  /\ UNCHANGED <<lastIndex, batch, history, routeLog, before, steps>>

\* a mount layer carrying compile(T) and paramsOf(T) is given to the walk
TemplateLayer(T, encodingB) ==
  MountLayer("router", Compile(T, encodingB), ParamsOf(T), Handler)

ChooseTemplate(T, encodingB, basePath) ==
  /\ op.name \in {"none", "decoded"}
  /\ op' = [name |-> "template", template |-> T, encodingB |-> encodingB,
            basePath |-> basePath, threw |-> FALSE]
  /\ UNCHANGED <<lastIndex, heap, endpoints, batch, history, routeLog,
                 before, steps>>

\* lines 219-231 for that layer
DecodeMount ==
  /\ op.name = "template"
  /\ \E stackItem \in {TemplateLayer(op.template, op.encodingB)} :
     \E newBasePath \in {NewBasePath(stackItem, op.basePath, lastIndex)} :
       /\ lastIndex' = newBasePath.lastIndex
       /\ op' = [name |-> "decoded", template |-> op.template,
                 encodingB |-> op.encodingB, basePath |-> op.basePath,
                 threw |-> newBasePath.err,
                 newBasePath |-> newBasePath.path]
  /\ UNCHANGED <<heap, endpoints, batch, history, routeLog, before, steps>>

\* listEndpoints called again and again on one loaded module
Next ==
  \/ \E app \in Apps, options \in Options : ListEndpointsCall(app, options)
  \/ CallerDone

Spec == Init /\ [][Next]_vars

\* addEndpoints applied to one accumulator
NextMerge ==
  \/ \E E \in Batches : AddEndpointsCall(E)
  \/ AddEndpointsAgain

SpecMerge == Init /\ [][NextMerge]_vars

\* one accumulator walked through terminal layers and stackless nodes
NextRoutes ==
  \/ \E route \in Routes, basePath \in BasePaths :
       RouteLayerStep(route, basePath)
  \/ \E basePath \in BasePaths : ParseEndpointsNoStack(basePath)

SpecRoutes == Init /\ [][NextRoutes]_vars

\* one accumulator walked through terminal and mount layers
NextMounts ==
  \/ \E route \in {RouteGetX, RoutePostGet}, basePath \in BasePaths :
       RouteLayerStep(route, basePath)
  \/ \E stackItem \in MountLayers, basePath \in BasePaths,
        includeMiddlewareRoutes \in BOOLEAN :
       MountLayerStep(stackItem, basePath, includeMiddlewareRoutes)

SpecMounts == Init /\ [][NextMounts]_vars

\* mount layers built from templates, decoded one after the other
NextDecode ==
  \/ \E T \in Templates, encodingB \in BOOLEAN, basePath \in BasePaths :
       ChooseTemplate(T, encodingB, basePath)
  \/ DecodeMount

SpecDecode == Init /\ [][NextDecode]_vars

----------------------------------------------------------------------------
(* Properties *)

\* the entries of a list that hold path p
Holding(list, p) == {i \in 1..Len(list) : list[i].path = p}

\* C1: the list listEndpoints returns has pairwise distinct paths, for
\* every tree and either value of includeMiddlewareRoutes, also when one
\* route yields two endpoints with the same path.
PathsPairwiseDistinct ==
  \A i, j \in 1..Len(View) : i # j => View[i].path # View[j].path

\* two terminal layers (one of them with the path /x twice) gave one entry
PathsPairwiseDistinctWitness ==
  /\ op.name = "listEndpoints"
  /\ ~op.threw
  /\ Len(op.app.stack) = 2
  /\ op.app.stack[1].route = RouteGetX
  /\ op.app.stack[2].route = RoutePostXX
  /\ Len(View) = 1

\* C2: addEndpoints is idempotent: merging the list that was just merged
\* once more leaves every entry, its order, methods and middlewares as
\* they were.
MergeIdempotent ==
  op.name = "addEndpointsAgain" => View = before

\* a list with a repeated path and one with an empty method list were
\* merged twice
MergeIdempotentWitness ==
  /\ op.name = "addEndpointsAgain"
  /\ Len(batch) = 2
  /\ \/ /\ heap[batch[1]].path = heap[batch[2]].path
        /\ heap[batch[1]].methods # heap[batch[2]].methods
     \/ heap[batch[2]].methods = <<>>
  /\ View # <<>>

\* the candidates of h before the k-th
Earlier(h, k) == SubSeq(h, 1, k - 1)

\* the methods the entry of path p lists once the candidates of h have
\* arrived: those of the first candidate with p, then what each later one
\* with p brings that is not yet listed
RECURSIVE RefMethods(_, _)
RefMethods(h, p) ==
  IF h = <<>> THEN <<>>
  ELSE LET last == h[Len(h)]
           Listed(sofar) ==
             LET NotYet(method) == method \notin Range(sofar)
             IN sofar \o SelectSeq(last.methods, NotYet)
       IN IF last.path # p THEN RefMethods(Earlier(h, Len(h)), p)
          ELSE IF Holding(Earlier(h, Len(h)), p) = {} THEN last.methods
          ELSE Listed(RefMethods(Earlier(h, Len(h)), p))

\* the candidates of h that are the first with their path, in order
RECURSIVE FirstDiscoveries(_)
FirstDiscoveries(h) ==
  IF h = <<>> THEN <<>>
  ELSE LET Rest(front) ==
             IF Holding(front, h[Len(h)].path) = {}
             THEN Append(FirstDiscoveries(front), h[Len(h)])
             ELSE FirstDiscoveries(front)
       IN Rest(Earlier(h, Len(h)))

\* the reference fold over the candidates in arrival order
RefFold(h) ==
  LET Entries(firsts) ==
        [n \in 1..Len(firsts) |->
           [path |-> firsts[n].path,
            methods |-> RefMethods(h, firsts[n].path),
            middlewares |-> firsts[n].middlewares]]
  IN Entries(FirstDiscoveries(h))

\* C5: the accumulator equals the reference fold over the candidates in
\* arrival order: entries in order of first discovery, middlewares of the
\* first candidate with the path, methods of the first followed by the
\* not yet listed methods of later ones.
AccumulatorIsReferenceFold ==
  View = RefFold(history)

\* a GET candidate and a later POST, GET candidate of the same path gave
\* one entry GET, POST with the middlewares of the first
AccumulatorIsReferenceFoldWitness ==
  /\ Len(history) >= 3
  /\ Len(View) = 2
  /\ View[1].methods = <<"GET", "POST">>
  /\ View[1].middlewares = <<"auth">>

\* the method tables logged for path p, one after the other
RECURSIVE KeysFor(_, _)
KeysFor(log, p) ==
  IF log = <<>> THEN <<>>
  ELSE (IF Head(log).path = p THEN Head(log).methods ELSE <<>>)
       \o KeysFor(Tail(log), p)

\* the elements of s in order of first appearance
RECURSIVE FirstAppearances(_)
FirstAppearances(s) ==
  IF s = <<>> THEN <<>>
  ELSE LET Add(front) ==
             IF s[Len(s)] \in Range(front) THEN front
             ELSE Append(front, s[Len(s)])
       IN Add(FirstAppearances(Earlier(s, Len(s))))

\* the verbs of a sequence of method tables: upper-cased, wildcard left out
Verbs(keys) ==
  LET IsVerb(key) == key # WildcardKey
      Upper(verbs) == [k \in 1..Len(verbs) |-> ToUpperCase(verbs[k])]
  IN Upper(SelectSeq(keys, IsVerb))

\* C4: the methods of every endpoint never hold the wildcard marker or its
\* upper-cased form, hold upper-case verbs only, hold no verb twice, and
\* list the verbs of the routes of that path in order of first appearance.
MethodsUpperCaseOnceInOrder ==
  \A i \in 1..Len(View) :
    /\ WildcardKey \notin Range(View[i].methods)
    /\ ToUpperCase(WildcardKey) \notin Range(View[i].methods)
    /\ \A method \in Range(View[i].methods) :
         \A k \in 1..Len(method) : method[k] \in UpperChars
    /\ \A a, b \in 1..Len(View[i].methods) :
         a # b => View[i].methods[a] # View[i].methods[b]
    /\ View[i].methods =
         FirstAppearances(Verbs(KeysFor(routeLog, View[i].path)))

\* a route with table get and one with table get, post, _all, both at /x,
\* gave one endpoint GET, POST
MethodsUpperCaseOnceInOrderWitness ==
  /\ KeysFor(routeLog, PathX) = <<KeyGet, KeyGet, KeyPost, WildcardKey>>
  /\ \E i \in 1..Len(View) :
       /\ View[i].path = PathX
       /\ View[i].methods = <<ToUpperCase(KeyGet), ToUpperCase(KeyPost)>>

\* C10 as stated: parseEndpoints on a node without a stack returns an empty
\* accumulator as it is and every other accumulator with exactly one more
\* entry, the placeholder, at its end.
NoStackAppendsPlaceholder ==
  op.name = "noStack" =>
    View = IF before = <<>> THEN <<>>
           ELSE Append(before, Placeholder(op.basePath))

\* C10 amended: an empty accumulator and one that holds an entry of path
\* basePath are returned as they are; every other accumulator gets exactly
\* one more entry, the placeholder, at its end.
NoStackAddsPlaceholder ==
  op.name = "noStack" =>
    View = IF before = <<>> \/ Holding(before, op.basePath) # {} THEN before
           ELSE Append(before, Placeholder(op.basePath))

\* the node was met with an accumulator that holds its base path
NoStackAddsPlaceholderWitness ==
  /\ op.name = "noStack"
  /\ Holding(before, op.basePath) # {}
  /\ View = before

\* a layer named <anonymous> whose handle exposes no stack was walked
AnonymousLeaf ==
  /\ op.name = "mount"
  /\ op.stackItem.name = "<anonymous>"
  /\ op.stackItem.handle = Handler
  /\ ~op.threw

\* C8 as stated: a layer named <anonymous> whose handle exposes no stack
\* adds no endpoint under either setting of includeMiddlewareRoutes.
AnonymousLeafAddsNothing ==
  AnonymousLeaf => View = before

\* C8 amended: with includeMiddlewareRoutes false the layer is skipped;
\* with true it adds nothing to an empty accumulator or to one that holds
\* its base path, and the placeholder of its base path to every other.
AnonymousLeafAddsPlaceholder ==
  AnonymousLeaf =>
    View = IF \/ ~op.includeMiddlewareRoutes
              \/ before = <<>>
              \/ Holding(before, op.newBasePath) # {}
           THEN before
           ELSE Append(before, Placeholder(op.newBasePath))

\* the layer was walked with includeMiddlewareRoutes true and added its
\* placeholder
AnonymousLeafAddsPlaceholderWitness ==
  /\ AnonymousLeaf
  /\ op.includeMiddlewareRoutes
  /\ Len(View) = Len(before) + 1

\* C9: a recognized mount layer whose pattern is the root sentinel leaves
\* the base path unchanged, so the route /x of a router mounted there is
\* reported at basePath + /x.
RootSentinelKeepsBasePath ==
  ( /\ op.name = "mount"
    /\ op.stackItem.name = "router"
    /\ op.stackItem.regexp = EXPRESS_ROOT_PATH_REGEXP_VALUE
    /\ op.stackItem.handle = RouterX )
  => /\ ~op.threw
     /\ op.newBasePath = op.basePath
     /\ Holding(View, op.basePath \o PathX) # {}

\* C3: a mount layer carrying compile(T) and the descriptors of T extends
\* the base path by exactly T, in either encoding.
DecoderRoundTrip ==
  op.name = "decoded" =>
    /\ ~op.threw
    /\ op.newBasePath = op.basePath \o TemplateText(op.template)

\* the capture-group fragments of a pattern
Placeholders(regexp) ==
  {i \in 1..Len(regexp) : ParamGroupEnd(regexp, i, 1) # 0}

\* a layer of a stack is malformed: a mount pattern with more placeholders
\* than descriptors, or a terminal route without a path
Malformed(stack) ==
  \E k \in 1..Len(stack) :
    \/ /\ stack[k].route.present
       /\ stack[k].route.path.kind = "undefined"
    \/ /\ ~stack[k].route.present
       /\ stack[k].name \in STACK_ITEM_VALID_NAMES
       /\ Cardinality(Placeholders(stack[k].regexp)) > Len(stack[k].keys)

\* C6: listEndpoints on a tree with a malformed layer ends in an error and
\* returns no list.
MalformedTreeFails ==
  (op.name = "listEndpoints" /\ Malformed(op.app.stack)) => op.threw

\* what the same call gives as the first call of a fresh module
FreshOutcome(app, options) ==
  LET Outcome(st) ==
        [threw |-> st.err,
         list |-> IF st.err THEN <<>> ELSE Deref(st.heap, st.endpoints)]
  IN Outcome(expressListEndpoints(app, options, 0))

\* C7: a call of listEndpoints gives what the same call gives as the first
\* call of a fresh module, whatever calls came before it.
CallsIndependent ==
  op.name = "listEndpoints" =>
    [threw |-> op.threw, list |-> View] = FreshOutcome(op.app, op.options)
====
